---- MODULE Spec2Model ----
(***************************************************************************)
(* mytablecopy: the streaming copy pipeline of src/mytablecopy.go.         *)
(*                                                                         *)
(* readRows (producer goroutine) scans the source cursor into one reused   *)
(* row buffer and hands each row to writeRows (consumer, run by main) over *)
(* the unbuffered channels dataChan / goChan.  writeRows renders each row  *)
(* as a tuple of SQL literals, accumulates the tuples in an insert         *)
(* statement and executes the statement on the target when it grows past   *)
(* insertBufferSize, and once more at stream end.                          *)
(*                                                                         *)
(* Before the pipeline, main checks the command line, connects to both     *)
(* servers, reads the create statement and the column types of the source  *)
(* table and, unless appending, creates the target schema and drops and    *)
(* recreates the target table.  catchNotifications handles interrupts.     *)
(*                                                                         *)
(* Text is modelled byte by byte: a text is a sequence of one-character    *)
(* strings, so lengths, escaping and statement boundaries are those of the *)
(* program.  Only insertBufferSize is scaled down (see below).             *)
(***************************************************************************)
EXTENDS Integers, Sequences, FiniteSets, TLC

VARIABLES
    fTgtHost,     \* -tgthost flag
    fSrcTable,    \* -srctable flag
    fTgtTable,    \* -tgttable flag (assigned at line 161 when blank)
    source,       \* main: source (dbInfo): schema, table, db (connected)
    target,       \* main: target (dbInfo): schema, table, db (connected)
    createStmt,   \* main: createStmt, the text getCreateTable returned
    srcTypes,     \* source server: data types of the source table's columns
    tgtHasSchema, \* target server: the target schema exists
    dupRows,      \* target server: source rows whose unique key it holds
    tgtBefore,    \* target server: tuples its table held before the first run
    run,          \* number of the run of the program against this target
    now,          \* the wall clock, in seconds after the zero time.Time
    timer,        \* catchNotifications: timer
    ignoreStdin,  \* catchNotifications: ignoreStdin
    signals,      \* history: number of interrupts the handler has received
    warnings,     \* history: the times at which the handler has warned
    srcRows,      \* rows the source query returns, in cursor order
    columns,      \* dbi.columns: the column data types (target.columns)
    fTgtAppend,   \* -append flag, after line 168-170
    fTgtIgnore,   \* -ignore flag
    ppc,          \* readRows: position of the producer goroutine
    cursor,       \* number of rows.Next() calls that returned true
    vals,         \* the shared row buffer (vals / data alias the same memory)
    cpc,          \* main + writeRows: position of the main goroutine
    colIdx,       \* writeRows: i of "for i, col := range data" (next column)
    buf,          \* writeRows: buf (bytes.Buffer)
    appendSQL,    \* writeRows: appendSQL
    rowsWritten,  \* writeRows: rowsWritten
    tx,           \* target: statements executed in the open transaction
    txOpen,       \* target: a transaction is open
    committed,    \* target: committed transactions, in commit order
    dataClosed,   \* close(dataChan) has happened
    quitClosed,   \* close(quitChan) has happened
    goClosed,     \* close(goChan) has happened
    exitCode,     \* process exit code, Running while the process runs
    published,    \* history: number of completed sends on dataChan
    acked,        \* history: number of completed sends on goChan
    failures      \* history: the positions at which an operation failed

vars == <<fTgtHost, fSrcTable, fTgtTable, source, target, createStmt,
          srcTypes, tgtHasSchema, dupRows, tgtBefore, run,
          now, timer, ignoreStdin, signals, warnings,
          srcRows, columns, fTgtAppend, fTgtIgnore, ppc, cursor, vals, cpc,
          colIdx, buf, appendSQL, rowsWritten, tx, txOpen, committed,
          dataClosed, quitClosed, goClosed, exitCode, published, acked,
          failures>>

----------------------------------------------------------------------------
(* Bounds and input sets *)

\* Most rows the source query returns.
MaxRows == 2

\* Longest column value drawn for the literal-rendering specification.
MaxValLen == 3

\* insertBufferSize is 1048576 in the program (line 23); the model scales it
\* down so that batches of a few short rows cross it.  It stays larger than
\* either statement prefix (28 and 35 bytes).
insertBufferSize == 40

\* exit codes: os.Exit(11), os.Exit(0) and a Go panic (log.Panic), which ends
\* the process with code 2
ExitIO == 11
ExitOK == 0
ExitPanic == 2
ExitUsage == 1

\* signalTimeout (line 26): seconds in which a second interrupt exits
signalTimeout == 3

\* The wall clock when the process starts, in seconds after the zero
\* time.Time (year 1), and the seconds of a run the clock is followed for.
ProcessStart == 5
MaxElapsed == 7

\* exitCode is <<>> while the process runs and <<code>> once it has ended
Running == <<>>
Exited(code) == <<code>>

\* A column value as sql.RawBytes: nil (NULL), or a byte slice.
Col(bytes) == [isNull |-> FALSE, bytes |-> bytes]
NullCol == [isNull |-> TRUE, bytes |-> <<>>]

\* The bytes that matter to the encoding: an ordinary byte, the single quote
\* and the backslash.
Bytes == {"a", "'", "\\"}

RECURSIVE TextsUpTo(_)
TextsUpTo(n) ==
    IF n = 0 THEN {<<>>}
    ELSE LET shorter == TextsUpTo(n - 1)
         IN  shorter \cup {Append(t, b) : t \in {s \in shorter : Len(s) = n - 1},
                                          b \in Bytes}

\* data types of information_schema.columns: the six the program escapes
\* and some it does not, whose columns hold any bytes too
TextTypes == {"tinytext", "text", "mediumtext", "longtext", "char", "varchar"}
OtherTypes == {"blob", "varbinary", "binary"}

\* Column values of the pipeline runs: NULL, an ordinary byte and both
\* special bytes, of different encoded lengths.  (The empty value, and all
\* values up to MaxValLen bytes, are in the literal-rendering runs.)
PipelineValues ==
    {NullCol, Col(<<"a">>), Col(<<"\\", "'">>)}

\* Column profiles of the pipeline runs.
PipelineProfiles == {<<"varchar">>, <<"blob", "text">>}

RECURSIVE TablesUpTo(_, _)
TablesUpTo(n, rowSet) ==
    IF n = 0 THEN {<<>>}
    ELSE LET shorter == TablesUpTo(n - 1, rowSet)
         IN  shorter \cup {Append(t, r) : t \in {s \in shorter : Len(s) = n - 1},
                                          r \in rowSet}

RowsOf(profile, values) == [1..Len(profile) -> values]

----------------------------------------------------------------------------
(* Text constants of the program *)

T_insert_into == <<"i","n","s","e","r","t"," ","i","n","t","o"," ">>
T_insert_ignore_into ==
    <<"i","n","s","e","r","t"," ","i","g","n","o","r","e"," ","i","n","t","o"," ">>
T_values_open == <<" ","v","a","l","u","e","s"," ","(">>
T_NULL == <<"N","U","L","L">>
T_set_fk ==
    <<"s","e","t"," ","f","o","r","e","i","g","n","_","k","e","y","_",
      "c","h","e","c","k","s","=","0">>
T_use == <<"u","s","e"," ">>

\* target.schema and target.table (tgtSplit[0], tgtSplit[1], line 206)
tgtSchema == target.schema
tgtTable == target.table

T_show_create ==
    <<"C","R","E","A","T","E"," ","T","A","B","L","E"," ">>
T_drop_table ==
    <<"d","r","o","p"," ","t","a","b","l","e"," ","i","f"," ",
      "e","x","i","s","t","s"," ">>
T_create_database ==
    <<"c","r","e","a","t","e"," ","d","a","t","a","b","a","s","e"," ">>
T_default_charset ==
    <<" ","d","e","f","a","u","l","t"," ","c","h","a","r","a","c","t","e","r",
      " ","s","e","t"," ">>

\* The backtick byte (the character itself cannot be written in a TLA+ string).
Backtick == "backtick"

\* addQuotes: wrap an identifier in backticks
addQuotes(s) == <<Backtick>> \o s \o <<Backtick>>

\* What the source server answers to "show create table" for a table of
\* this name (getCreateTable, line 348): MySQL writes the keywords in upper
\* case and the identifiers between backticks.  The table of the model has
\* one column, named like the table.
ShowCreateTable(name) ==
    T_show_create \o addQuotes(name) \o <<" ", "(">> \o addQuotes(name)
        \o <<" ", "t", "e", "x", "t", ")">>

\* sqlPrefix of writeRows
sqlPrefix(ignore) ==
    (IF ignore THEN T_insert_ignore_into ELSE T_insert_into)
        \o addQuotes(tgtSchema) \o <<".">> \o addQuotes(tgtTable) \o T_values_open

----------------------------------------------------------------------------
(* Rendering of one column (writeRows, lines 484-512) *)

\* bytes.IndexAny(col, `\'`) >= 0
HasSpecial(col) == \E k \in 1..Len(col) : col[k] \in {"\\", "'"}

\* bytes.Replace(s, []byte{old}, new, -1) for a one-byte old
RECURSIVE Replace(_, _, _)
Replace(s, old, new) ==
    IF s = <<>> THEN <<>>
    ELSE (IF Head(s) = old THEN new ELSE <<Head(s)>>) \o Replace(Tail(s), old, new)

\* the two replacements in the other order: the backslash added for a
\* quote is doubled by the second one
EscapeTextQuotesFirst(col) ==
    IF HasSpecial(col)
    THEN Replace(Replace(col, "'", <<"\\", "'">>), "\\", <<"\\", "\\">>)
    ELSE col

\* lines 502-505: backslashes doubled, then quotes prefixed with a backslash
EscapeText(col) ==
    IF HasSpecial(col)
    THEN Replace(Replace(col, "\\", <<"\\", "\\">>), "'", <<"\\", "'">>)
    ELSE col

\* the switch on dbi.columns[i], lines 490-511: the six text types escape
IsTextType(dataType) ==
    dataType \in {"tinytext", "text", "mediumtext", "longtext", "char", "varchar"}

\* the rendering with the length tested before nil: a nil slice has length
\* 0 too
RenderColumnLenFirst(col, dataType) ==
    IF Len(col.bytes) = 0 THEN <<"'", "'">>
    ELSE IF col.isNull THEN T_NULL
    ELSE <<"'">>
         \o (IF IsTextType(dataType) THEN EscapeText(col.bytes) ELSE col.bytes)
         \o <<"'">>

\* the literal written for one column, lines 485-512
RenderColumn(col, dataType) ==
    IF col.isNull THEN T_NULL
    ELSE IF Len(col.bytes) = 0 THEN <<"'", "'">>
    ELSE <<"'">>
         \o (IF IsTextType(dataType) THEN EscapeText(col.bytes) ELSE col.bytes)
         \o <<"'">>

\* lines 514-517: all fields but the last one are comma delimited
FieldDelimiter(i) == IF i < Len(columns) - 1 THEN <<",">> ELSE <<>>

----------------------------------------------------------------------------
(* State after main has created the channels, started readRows and entered *)
(* writeRows (lines 241-248, 461-477)                                       *)

\* the input of a run: the flags as lines 167-170 leave them, the column
\* profile getDataTypes returned and the rows the source query will return
RunInputs(profiles, values, maxRows) ==
    /\ fTgtIgnore \in BOOLEAN
    /\ fTgtAppend \in BOOLEAN
    /\ fTgtIgnore => fTgtAppend
    /\ columns \in profiles
    /\ srcRows \in TablesUpTo(maxRows, RowsOf(columns, values))

PipelineStart ==
    /\ ppc = "query"
    /\ cursor = 0
    /\ vals = <<>>
    /\ cpc = "recv"
    /\ colIdx = 0
    /\ buf = sqlPrefix(fTgtIgnore)
    /\ appendSQL = FALSE
    /\ rowsWritten = 0
    /\ tx = <<>>
    /\ txOpen = FALSE
    /\ committed = <<>>
    /\ dataClosed = FALSE
    /\ quitClosed = FALSE
    /\ goClosed = FALSE
    /\ exitCode = Running
    /\ published = 0
    /\ acked = 0

\* catchNotifications has run (lines 279-291): timer is the zero time.Time;
\* no interrupt has been received.  Stdin is a terminal.
NoSignal ==
    /\ now = ProcessStart
    /\ timer = 0
    /\ ignoreStdin = FALSE
    /\ signals = 0
    /\ warnings = <<>>

\* What main has established when it starts the pipeline of a run with
\* -tgthost=h -srctable=s.t and no -tgttable: both connections are open,
\* the column profile is the one of the source table
SetupDone ==
    /\ fTgtHost = <<"h">>
    /\ fSrcTable = <<"s", ".", "t">>
    /\ fTgtTable = fSrcTable
    /\ source = [schema |-> <<"s">>, table |-> <<"t">>, db |-> TRUE]
    /\ target = [schema |-> <<"s">>, table |-> <<"t">>, db |-> TRUE]
    /\ createStmt = ShowCreateTable(<<"t">>)
    /\ srcTypes = columns
    /\ tgtHasSchema = TRUE
    /\ dupRows = {}
    /\ tgtBefore = <<>>
    /\ run = 1
    /\ failures = <<>>

Init ==
    /\ RunInputs(PipelineProfiles, PipelineValues, MaxRows)
    /\ SetupDone
    /\ NoSignal
    /\ PipelineStart

setupVars == <<fTgtHost, fSrcTable, fTgtTable, source, target, createStmt,
               srcTypes, tgtHasSchema, dupRows, tgtBefore, run>>
signalVars == <<now, timer, ignoreStdin, signals, warnings>>
inputVars == <<srcRows, columns, fTgtAppend, fTgtIgnore, setupVars,
               signalVars>>
producerVars == <<ppc, cursor, vals>>
consumerVars == <<cpc, colIdx, buf, appendSQL, rowsWritten>>
consumerRest == <<colIdx, buf, appendSQL, rowsWritten>>
targetVars == <<tx, txOpen, committed>>
chanVars == <<dataClosed, quitClosed, goClosed>>
histVars == <<published, acked, failures>>

\* os.Exit(code), or a panic that ends the process: every goroutine stops
Exit(code) ==
    /\ exitCode' = Exited(code)
    /\ UNCHANGED <<inputVars, producerVars, consumerVars, targetVars,
                   chanVars, published, acked>>

\* an error that is printed and not acted upon: the process goes on
FailLogsOnly(at, code) ==
    /\ failures' = Append(failures, at)
    /\ UNCHANGED <<inputVars, producerVars, consumerVars, targetVars,
                   chanVars, published, acked, exitCode>>

\* the operation at position "at" returns an error, and the error handling
\* there ends the process with the code: os.Exit(code) after the message,
\* or log.Panic in checkErr (lines 272-276)
Fail(at, code) ==
    /\ failures' = Append(failures, at)
    /\ Exit(code)

----------------------------------------------------------------------------
(* main before the pipeline: flags, connections, introspection (lines      *)
(* 148-230)                                                                *)

\* strings.Contains(s, ".")
ContainsDot(s) == \E k \in 1..Len(s) : s[k] = "."

\* strings.Split(s, ".")
RECURSIVE Split(_)
Split(s) ==
    IF ~ContainsDot(s) THEN <<s>>
    ELSE LET k == CHOOSE i \in 1..Len(s) :
                      s[i] = "." /\ \A j \in 1..(i - 1) : s[j] # "."
         IN  <<SubSeq(s, 1, k - 1)>> \o Split(SubSeq(s, k + 1, Len(s)))

\* the flag values of the runs: no table, a table without schema, and
\* fully qualified tables
SrcTableFlags == {<<>>, <<"t">>, <<"s", ".", "t">>, <<"s", ".", "E">>}
TgtTableFlags == {<<>>, <<"u">>, <<"s", ".", "t">>, <<"s", ".", "u">>}
TgtHostFlags == {<<>>, <<"h">>}

\* the source tables of the runs from process start: one text column, at
\* most one row
MainProfiles == {<<"text">>}

\* what the target table holds before the first run: nothing, or a tuple
\* that is no source row
TargetContents == {<<>>, <<"'", "o", "'", ")">>}

\* the process starts: nothing is connected, readRows does not exist yet
MainStart ==
    /\ source = [schema |-> <<>>, table |-> <<>>, db |-> FALSE]
    /\ target = [schema |-> <<>>, table |-> <<>>, db |-> FALSE]
    /\ createStmt = <<>>
    /\ columns = <<>>
    /\ ppc = "idle"
    /\ cursor = 0
    /\ vals = <<>>
    /\ cpc = "host"
    /\ colIdx = 0
    /\ buf = <<>>
    /\ appendSQL = FALSE
    /\ rowsWritten = 0
    /\ tx = <<>>
    /\ txOpen = FALSE
    /\ dataClosed = FALSE
    /\ quitClosed = FALSE
    /\ goClosed = FALSE
    /\ exitCode = Running
    /\ published = 0
    /\ acked = 0
    /\ failures = <<>>

\* a command line, a source table and a target server
InitMain ==
    /\ fTgtHost \in TgtHostFlags
    /\ fSrcTable \in SrcTableFlags
    /\ fTgtTable \in TgtTableFlags
    /\ fTgtIgnore \in BOOLEAN
    /\ fTgtAppend \in BOOLEAN
    /\ srcTypes \in MainProfiles
    /\ srcRows \in TablesUpTo(1, RowsOf(srcTypes, PipelineValues))
    /\ tgtHasSchema \in BOOLEAN
    /\ dupRows \in SUBSET (1..Len(srcRows))
    /\ tgtBefore \in TargetContents
    /\ committed = <<>>
    /\ run = 1
    /\ NoSignal
    /\ MainStart

\* the variables a step of main before the pipeline leaves alone, but for
\* its position
mainRest == <<producerVars, consumerRest, chanVars, exitCode, histVars,
              signalVars>>
serverVars == <<srcTypes, srcRows, tgtHasSchema, dupRows, tgtBefore, run>>
flagVars == <<fTgtHost, fSrcTable, fTgtTable, fTgtIgnore, fTgtAppend>>
mainVars == <<source, target, createStmt, columns>>

\* line 154 without the test: main goes on without a target host
CheckHostNoTest ==
    /\ exitCode = Running
    /\ cpc = "host"
    /\ cpc' = "table"
    /\ UNCHANGED <<flagVars, mainVars, serverVars, targetVars, mainRest>>

\* line 154: a target host is given
CheckHost ==
    /\ exitCode = Running
    /\ cpc = "host"
    /\ fTgtHost # <<>>
    /\ cpc' = "table"
    /\ UNCHANGED <<flagVars, mainVars, serverVars, targetVars, mainRest>>

\* lines 154-157: "You must provide a target database", os.Exit(1)
CheckHostFail ==
    /\ exitCode = Running
    /\ cpc = "host"
    /\ fTgtHost = <<>>
    /\ Fail(cpc, ExitUsage)

\* lines 160-162: a blank target table takes the source table; otherwise
\* the source table has to be given and to contain "."
CheckTable ==
    /\ exitCode = Running
    /\ cpc = "table"
    /\ IF fTgtTable = <<>> /\ fSrcTable # <<>>
       THEN fTgtTable' = fSrcTable
       ELSE /\ ~(fSrcTable = <<>> \/ ~ContainsDot(fSrcTable))
            /\ fTgtTable' = fTgtTable
    /\ cpc' = "ignore"
    /\ UNCHANGED <<fTgtHost, fSrcTable, fTgtIgnore, fTgtAppend, mainVars,
                   serverVars, targetVars, mainRest>>

\* lines 162-165: "You must provide a fully qualifed table to move",
\* os.Exit(1)
CheckTableFail ==
    /\ exitCode = Running
    /\ cpc = "table"
    /\ ~(fTgtTable = <<>> /\ fSrcTable # <<>>)
    /\ fSrcTable = <<>> \/ ~ContainsDot(fSrcTable)
    /\ Fail(cpc, ExitUsage)

\* lines 168-170 without the assignment
AppendAsGiven == fTgtAppend

\* lines 168-170: if -ignore is enabled also make sure -append is enabled
AppendOrIgnore == fTgtIgnore \/ fTgtAppend

SetAppend ==
    /\ exitCode = Running
    /\ cpc = "ignore"
    /\ fTgtAppend' = AppendOrIgnore
    /\ cpc' = "password"
    /\ UNCHANGED <<fTgtHost, fSrcTable, fTgtTable, fTgtIgnore, mainVars,
                   serverVars, targetVars, mainRest>>

\* lines 173-199: the password is given or read from the terminal; the
\* other defaults do not matter here
Password ==
    /\ exitCode = Running
    /\ cpc = "password"
    /\ cpc' = "split"
    /\ UNCHANGED <<flagVars, mainVars, serverVars, targetVars, mainRest>>

\* lines 176-180: terminal.ReadPassword fails with an error other than
\* io.EOF: checkErr panics
PasswordFail ==
    /\ exitCode = Running
    /\ cpc = "password"
    /\ Fail(cpc, ExitPanic)

\* lines 202-206: the names are split on "." and elements 0 and 1 make
\* schema and table
SplitNames ==
    /\ exitCode = Running
    /\ cpc = "split"
    /\ LET srcSplit == Split(fSrcTable)
           tgtSplit == Split(fTgtTable)
       IN  /\ Len(srcSplit) >= 2
           /\ Len(tgtSplit) >= 2
           /\ source' = [schema |-> srcSplit[1], table |-> srcSplit[2],
                         db |-> FALSE]
           /\ target' = [schema |-> tgtSplit[1], table |-> tgtSplit[2],
                         db |-> FALSE]
    /\ cpc' = "connect_src"
    /\ UNCHANGED <<flagVars, createStmt, columns, serverVars, targetVars,
                   mainRest>>

\* lines 205-206: srcSplit[1] or tgtSplit[1] of a one-element slice is an
\* index out of range: the Go runtime panics
SplitNamesFail ==
    /\ exitCode = Running
    /\ cpc = "split"
    /\ Len(Split(fSrcTable)) < 2 \/ Len(Split(fTgtTable)) < 2
    /\ Fail(cpc, ExitPanic)

\* lines 209-215: source.Connect() opens and pings
ConnectSource ==
    /\ exitCode = Running
    /\ cpc = "connect_src"
    /\ source' = [source EXCEPT !.db = TRUE]
    /\ cpc' = "connect_tgt"
    /\ UNCHANGED <<flagVars, target, createStmt, columns, serverVars,
                   targetVars, mainRest>>

\* lines 218-224: target.Connect() opens and pings
ConnectTarget ==
    /\ exitCode = Running
    /\ cpc = "connect_tgt"
    /\ target' = [target EXCEPT !.db = TRUE]
    /\ cpc' = "get_create"
    /\ UNCHANGED <<flagVars, source, createStmt, columns, serverVars,
                   targetVars, mainRest>>

\* lines 211-214 and 220-223: the ping fails, the error is printed,
\* os.Exit(1)
ConnectFail ==
    /\ exitCode = Running
    /\ cpc \in {"connect_src", "connect_tgt"}
    /\ Fail(cpc, ExitUsage)

T_show_create_table ==
    <<"s","h","o","w"," ","c","r","e","a","t","e"," ","t","a","b","l","e"," ">>
T_select_from == <<"s","e","l","e","c","t"," ","*"," ","f","r","o","m"," ">>

\* line 348: the statement getCreateTable sends to the source
showCreateQuery ==
    T_show_create_table \o addQuotes(source.schema) \o <<".">>
        \o addQuotes(source.table)

\* line 423: the statement readRows sends to the source (no -where clause)
selectQuery ==
    T_select_from \o addQuotes(source.schema) \o <<".">>
        \o addQuotes(source.table)

\* line 227: createStmt := source.getCreateTable()
GetCreateTable ==
    /\ exitCode = Running
    /\ cpc = "get_create"
    /\ createStmt' = ShowCreateTable(source.table)
    /\ cpc' = "get_types"
    /\ UNCHANGED <<flagVars, source, target, columns, serverVars, targetVars,
                   mainRest>>

\* line 230 with rows.Err() tested after the loop: the column list is
\* returned only when the iteration reached its end
GetDataTypesChecked ==
    /\ exitCode = Running
    /\ cpc = "get_types"
    /\ columns' = srcTypes
    /\ cpc' = "mode"
    /\ UNCHANGED <<flagVars, source, target, createStmt, serverVars,
                   targetVars, mainRest>>

\* line 230: target.columns = source.getDataTypes().  The loop of lines
\* 362-367 appends the data types while rows.Next() is true; rows.Next()
\* is false at the end of the rows and on a read error alike, and line 368
\* tests err, which holds the result of the last Scan, not rows.Err(): on
\* a read error after n rows the first n data types are returned.
GetDataTypes ==
    /\ exitCode = Running
    /\ cpc = "get_types"
    /\ \E n \in 0..Len(srcTypes) :
          /\ columns' = SubSeq(srcTypes, 1, n)
          /\ failures' = IF n < Len(srcTypes) THEN Append(failures, cpc)
                         ELSE failures
    /\ cpc' = "mode"
    /\ UNCHANGED <<flagVars, source, target, createStmt, serverVars,
                   targetVars, producerVars, consumerRest, chanVars,
                   exitCode, published, acked, signalVars>>

\* lines 349 and 359-364: the query or a Scan fails (no such table, lost
\* connection): checkErr panics
IntrospectFail ==
    /\ exitCode = Running
    /\ cpc \in {"get_create", "get_types"}
    /\ Fail(cpc, ExitPanic)

\* line 233 without the test: the schema and table are always (re)created
CopyModeAlways ==
    /\ exitCode = Running
    /\ cpc = "mode"
    /\ cpc' = "cs_show"
    /\ UNCHANGED <<flagVars, mainVars, serverVars, targetVars, mainRest>>

\* line 233 never (re)creating
CopyModeNever ==
    /\ exitCode = Running
    /\ cpc = "mode"
    /\ cpc' = "start"
    /\ UNCHANGED <<flagVars, mainVars, serverVars, targetVars, mainRest>>

\* line 233: only (re)create the schema and table if not appending
CopyMode ==
    /\ exitCode = Running
    /\ cpc = "mode"
    /\ cpc' = IF fTgtAppend = FALSE THEN "cs_show" ELSE "start"
    /\ UNCHANGED <<flagVars, mainVars, serverVars, targetVars, mainRest>>

----------------------------------------------------------------------------
(* createSchema and createTable (lines 374-419), the start of the pipeline  *)
(* (lines 242-248)                                                          *)

\* the character set the source reports for its schema (line 380)
charSet == <<"u">>

StartsWith(text, prefix) ==
    /\ Len(prefix) <= Len(text)
    /\ SubSeq(text, 1, Len(prefix)) = prefix

\* lines 376-378: "show databases like" finds the schema, or returns an
\* error: no row when the schema does not exist, a failure of the query
\* otherwise.  Either error sends createSchema on to create the schema.
SchemaShow ==
    /\ exitCode = Running
    /\ cpc = "cs_show"
    /\ \E err \in BOOLEAN :
          /\ ~tgtHasSchema => err
          /\ cpc' = IF err THEN "cs_create" ELSE "ct_begin"
          /\ failures' = IF err /\ tgtHasSchema THEN Append(failures, cpc)
                         ELSE failures
    /\ UNCHANGED <<flagVars, mainVars, serverVars, targetVars, producerVars,
                   consumerRest, chanVars, exitCode, published, acked,
                   signalVars>>

\* lines 380-383: create database with the character set of the source
\* schema; the statement commits on its own
SchemaCreate ==
    /\ exitCode = Running
    /\ cpc = "cs_create"
    /\ ~tgtHasSchema
    /\ committed' = Append(committed,
                           <<T_create_database \o addQuotes(tgtSchema)
                               \o T_default_charset \o charSet>>)
    /\ tgtHasSchema' = TRUE
    /\ cpc' = "ct_begin"
    /\ UNCHANGED <<flagVars, mainVars, srcTypes, srcRows, dupRows, tgtBefore,
                   run, tx, txOpen, mainRest>>

\* line 383: create database fails (the schema exists, no privilege, no
\* character set read): checkErr panics
SchemaCreateFail ==
    /\ exitCode = Running
    /\ cpc = "cs_create"
    /\ Fail(cpc, ExitPanic)

\* line 394: tx, err := tgt.db.Begin()
TableBegin ==
    /\ exitCode = Running
    /\ cpc = "ct_begin"
    /\ txOpen' = TRUE
    /\ tx' = <<>>
    /\ cpc' = "ct_fk"
    /\ UNCHANGED <<flagVars, mainVars, serverVars, committed, mainRest>>

\* line 398: tx.Exec("set foreign_key_checks=0")
TableForeignKeys ==
    /\ exitCode = Running
    /\ cpc = "ct_fk"
    /\ tx' = Append(tx, T_set_fk)
    /\ cpc' = "ct_use"
    /\ UNCHANGED <<flagVars, mainVars, serverVars, txOpen, committed,
                   mainRest>>

\* line 401: tx.Exec("use " + tgt.schema); the schema is not quoted and
\* the error is not looked at: createTable goes on to the drop
TableUse ==
    /\ exitCode = Running
    /\ cpc = "ct_use"
    /\ \E ok \in BOOLEAN :
          /\ tx' = IF ok THEN Append(tx, T_use \o tgtSchema) ELSE tx
          /\ failures' = IF ok THEN failures ELSE Append(failures, cpc)
    /\ cpc' = "ct_drop"
    /\ UNCHANGED <<flagVars, mainVars, serverVars, txOpen, committed,
                   producerVars, consumerRest, chanVars, exitCode, published,
                   acked, signalVars>>

\* the connection was opened without a database (lines 325-328): a table
\* statement needs a "use" to have been executed before it
DatabaseSelected == \E k \in 1..Len(tx) : StartsWith(tx[k], T_use)

\* line 404: tx.Exec("drop table if exists " + addQuotes(tgt.table)); the
\* table and the keys it held are gone
TableDrop ==
    /\ exitCode = Running
    /\ cpc = "ct_drop"
    /\ DatabaseSelected
    /\ tx' = Append(tx, T_drop_table \o addQuotes(tgtTable))
    /\ dupRows' = {}
    /\ cpc' = "ct_create"
    /\ UNCHANGED <<flagVars, mainVars, srcTypes, srcRows, tgtHasSchema,
                   tgtBefore, run, txOpen, committed, mainRest>>

\* the first index at which old occurs in text, 0 if it does not
IndexOf(text, old) ==
    LET hits == {i \in 1..(Len(text) - Len(old) + 1) :
                     SubSeq(text, i, i + Len(old) - 1) = old}
    IN  IF hits = {} THEN 0
        ELSE CHOOSE i \in hits : \A j \in hits : i <= j

\* strings.Replace(text, old, new, 1): the first occurrence is replaced
ReplaceFirst(text, old, new) ==
    LET i == IndexOf(text, old)
    IN  IF i = 0 THEN text
        ELSE SubSeq(text, 1, i - 1) \o new
                 \o SubSeq(text, i + Len(old), Len(text))

\* lines 408-410: change the table name if different
tableCreate ==
    IF source.table # target.table
    THEN ReplaceFirst(createStmt, source.table, target.table)
    ELSE createStmt

\* the server executes a create table statement only if it parses as one
ParsesAsCreateTable(stmt) == StartsWith(stmt, T_show_create \o <<Backtick>>)

\* line 413: tx.Exec(tableCreate)
TableCreate ==
    /\ exitCode = Running
    /\ cpc = "ct_create"
    /\ ParsesAsCreateTable(tableCreate)
    /\ tx' = Append(tx, tableCreate)
    /\ cpc' = "ct_commit"
    /\ UNCHANGED <<flagVars, mainVars, serverVars, txOpen, committed,
                   mainRest>>

\* line 417: tx.Commit()
TableCommit ==
    /\ exitCode = Running
    /\ cpc = "ct_commit"
    /\ committed' = Append(committed, tx)
    /\ tx' = <<>>
    /\ txOpen' = FALSE
    /\ cpc' = "start"
    /\ UNCHANGED <<flagVars, mainVars, serverVars, mainRest>>

\* lines 395, 399, 405, 414, 418: Begin, a statement or Commit fails:
\* checkErr panics
TableFail ==
    /\ exitCode = Running
    /\ cpc \in {"ct_begin", "ct_fk", "ct_drop", "ct_create", "ct_commit"}
    /\ Fail(cpc, ExitPanic)

\* lines 242-248 and 461-477: the channels are made, readRows is started
\* and main enters writeRows, which writes the statement prefix
StartPipeline ==
    /\ exitCode = Running
    /\ cpc = "start"
    /\ ppc' = "query"
    /\ cpc' = "recv"
    /\ buf' = sqlPrefix(fTgtIgnore)
    /\ UNCHANGED <<flagVars, mainVars, serverVars, targetVars, cursor, vals,
                   colIdx, appendSQL, rowsWritten, chanVars, exitCode,
                   histVars, signalVars>>

----------------------------------------------------------------------------
(* readRows (lines 422-457) *)

\* src.db.Query succeeds; cols are the columns of the result, those of the
\* source table; vals := make([]sql.RawBytes, len(cols))
Query ==
    /\ exitCode = Running
    /\ ppc = "query"
    /\ ppc' = "next"
    /\ vals' = [i \in 1..Len(srcTypes) |-> NullCol]
    /\ UNCHANGED <<inputVars, cursor, consumerVars, targetVars, chanVars,
                   histVars, exitCode>>

\* src.db.Query fails: log.Print, os.Exit(11)
QueryFail ==
    /\ exitCode = Running
    /\ ppc = "query"
    /\ Fail(ppc, ExitIO)

\* What the row buffer may hold once the driver has reused its memory: the
\* slices keep their length, their bytes are whatever the driver wrote.
Clobbered(row) ==
    [i \in 1..Len(row) |->
        IF row[i].isNull THEN NullCol
        ELSE Col([k \in 1..Len(row[i].bytes) |-> "#"])]

\* rows.Next(): fetches the next row into the driver's buffer, which the
\* RawBytes of the previous row point into; at the end of the rows,
\* rows.Err() is nil and the loop is left
NextRow ==
    /\ exitCode = Running
    /\ ppc = "next"
    /\ vals' \in {vals, Clobbered(vals)}
    /\ IF cursor < Len(srcRows)
       THEN /\ cursor' = cursor + 1
            /\ ppc' = "scan"
       ELSE /\ cursor' = cursor
            /\ ppc' = "close"
    /\ UNCHANGED <<inputVars, consumerVars, targetVars, chanVars, histVars,
                   exitCode>>

\* rows.Next() returns false on a read error: rows.Err() is not nil and
\* checkErr panics
NextFail ==
    /\ exitCode = Running
    /\ ppc = "next"
    /\ Fail(ppc, ExitPanic)

\* rows.Scan(scanVals...): vals now refers to the bytes of the current row
Scan ==
    /\ exitCode = Running
    /\ ppc = "scan"
    /\ vals' = srcRows[cursor]
    /\ ppc' = "send"
    /\ UNCHANGED <<inputVars, cursor, consumerVars, targetVars, chanVars,
                   histVars, exitCode>>

\* rows.Scan fails: checkErr panics
ScanFail ==
    /\ exitCode = Running
    /\ ppc = "scan"
    /\ Fail(ppc, ExitPanic)

\* readRows without close(dataChan): it goes on to its send on quitChan
CloseDataMissing ==
    /\ exitCode = Running
    /\ ppc = "close"
    /\ ppc' = "quit"
    /\ UNCHANGED <<inputVars, cursor, vals, consumerVars, targetVars,
                   chanVars, histVars, exitCode>>

\* close(dataChan)
CloseData ==
    /\ exitCode = Running
    /\ ppc = "close"
    /\ dataClosed' = TRUE
    /\ ppc' = "quit"
    /\ UNCHANGED <<inputVars, cursor, vals, consumerVars, targetVars,
                   quitClosed, goClosed, histVars, exitCode>>

----------------------------------------------------------------------------
(* The hand-off of one row (lines 444-449 and 478-482, 565) *)

\* readRows without the wait on goChan: it loops to rows.Next() at once
AfterSendNoWait == "next"

\* where readRows continues after its send on dataChan: it blocks on
\* <-goChan (line 449)
AfterSend == "wait"

\* dataChan <- vals meets "for data := range dataChan": the channel is
\* unbuffered, so the send completes when writeRows receives.  data is the
\* slice vals itself, not a copy.  writeRows then opens the next tuple
\* (lines 479-482).
Publish ==
    /\ exitCode = Running
    /\ ppc = "send"
    /\ cpc = "recv"
    /\ ~dataClosed
    /\ ppc' = AfterSend
    /\ published' = published + 1
    /\ buf' = IF appendSQL THEN buf \o <<",", "(">> ELSE buf
    /\ appendSQL' = TRUE
    /\ colIdx' = 1
    /\ cpc' = IF Len(vals) = 0 THEN "endrow" ELSE "col"
    /\ UNCHANGED <<inputVars, cursor, vals, rowsWritten, targetVars, chanVars,
                   acked, failures, exitCode>>

\* goChan <- true meets <-goChan: readRows may loop and scan the next row
Ack ==
    /\ exitCode = Running
    /\ cpc = "ack"
    /\ ppc = "wait"
    /\ ~goClosed
    /\ cpc' = "recv"
    /\ ppc' = "next"
    /\ acked' = acked + 1
    /\ UNCHANGED <<inputVars, cursor, vals, colIdx, buf, appendSQL,
                   rowsWritten, targetVars, chanVars, published, failures,
                   exitCode>>

----------------------------------------------------------------------------
(* The insert statements of given source rows *)

\* the text writeRows is to produce for one row after the opening
\* parenthesis: the literals, comma separated, and the closing parenthesis
RECURSIVE RowLiterals(_, _)
RowLiterals(row, i) ==
    IF i > Len(row) THEN <<>>
    ELSE RenderColumn(row[i], srcTypes[i])
         \o (IF i < Len(row) THEN <<",">> ELSE <<>>)
         \o RowLiterals(row, i + 1)

RowTuple(row) == RowLiterals(row, 1) \o <<")">>

\* the insert statement holding exactly the source rows from..to
RECURSIVE StatementOf(_, _)
StatementOf(from, to) ==
    IF to < from THEN sqlPrefix(fTgtIgnore)
    ELSE IF to = from THEN sqlPrefix(fTgtIgnore) \o RowTuple(srcRows[to])
    ELSE StatementOf(from, to - 1) \o <<",", "(">> \o RowTuple(srcRows[to])

\* the insert statement of a transaction: the last statement executed in it
InsertOf(t) == t[Len(t)]

Mismatch == 0 - 1

\* The last source row a statement holds, when its text from position pos
\* on is the tuples of the source rows next, next + 1, ... with ",("
\* between them, so that the statement is StatementOf(from, that row);
\* Mismatch otherwise.
RECURSIVE LastRowHeld(_, _, _)
LastRowHeld(text, pos, next) ==
    IF next > Len(srcRows) THEN Mismatch
    ELSE LET tuple == RowTuple(srcRows[next])
             end == pos + Len(tuple) - 1
         IN  IF end > Len(text) \/ SubSeq(text, pos, end) # tuple THEN Mismatch
             ELSE IF end = Len(text) THEN next
             ELSE IF /\ end + 2 <= Len(text)
                     /\ SubSeq(text, end + 1, end + 2) = <<",", "(">>
                  THEN LastRowHeld(text, end + 3, next + 1)
             ELSE Mismatch

\* The number of source rows the first k committed transactions hold, when
\* their insert statements hold the source rows in cursor order, each row
\* once, without a gap, and each statement at least one row; Mismatch
\* otherwise.
RECURSIVE RowsCommitted(_)
RowsCommitted(k) ==
    IF k = 0 THEN 0
    ELSE LET before == RowsCommitted(k - 1)
             stmt == InsertOf(committed[k])
             prefix == sqlPrefix(fTgtIgnore)
         IN  IF \/ before = Mismatch
                \/ Len(stmt) < Len(prefix)
                \/ SubSeq(stmt, 1, Len(prefix)) # prefix
             THEN Mismatch
             ELSE LastRowHeld(stmt, Len(prefix) + 1, before + 1)

----------------------------------------------------------------------------
(* writeRows (lines 460-597) *)

\* prefixLength, the length buf.WriteString(sqlPrefix) returned (line 475)
prefixLength == Len(sqlPrefix(fTgtIgnore))

\* line 490 is reached for a column that is neither nil nor empty
LooksUpType(col) == ~col.isNull /\ Len(col.bytes) # 0

\* dbi.columns[i] of line 490, for the columns the line is reached for
TypeOf(i) == IF i <= Len(columns) THEN columns[i] ELSE "out of range"

\* One turn of "for i, col := range data": the column is read from the
\* shared row buffer as it is now, rendered and appended (lines 484-518).
RenderCol ==
    /\ exitCode = Running
    /\ cpc = "col"
    /\ LooksUpType(vals[colIdx]) => colIdx <= Len(columns)
    /\ buf' = buf \o RenderColumn(vals[colIdx], TypeOf(colIdx))
                  \o FieldDelimiter(colIdx - 1)
    /\ colIdx' = colIdx + 1
    /\ cpc' = IF colIdx = Len(vals) THEN "endrow" ELSE "col"
    /\ UNCHANGED <<inputVars, producerVars, appendSQL, rowsWritten,
                   targetVars, chanVars, histVars, exitCode>>

\* line 490: dbi.columns[i] with i beyond the column list is an index out
\* of range: the Go runtime panics
RenderColFail ==
    /\ exitCode = Running
    /\ cpc = "col"
    /\ LooksUpType(vals[colIdx])
    /\ colIdx > Len(columns)
    /\ Fail(cpc, ExitPanic)

\* line 533 testing against twice the size
OverThresholdTwice(length) == length > 2 * insertBufferSize

\* line 533 with the test of line 569 in its place
OverThresholdAsRemaining(length) == length > prefixLength

\* line 533 never true: the batch is executed by the final flush only
OverThresholdNever(length) == FALSE

\* line 533 with >= for >
OverThresholdOrEqual(length) == length >= insertBufferSize

\* line 533: execute the insert statement if greater than insertBufferSize
OverThreshold(length) == length > insertBufferSize

\* the tuple is closed and counted, and the buffer length is tested
\* (lines 520-533)
EndRow ==
    /\ exitCode = Running
    /\ cpc = "endrow"
    /\ buf' = buf \o <<")">>
    /\ rowsWritten' = rowsWritten + 1
    /\ cpc' = IF OverThreshold(Len(buf')) THEN "t_begin" ELSE "ack"
    /\ UNCHANGED <<inputVars, producerVars, colIdx, appendSQL, targetVars,
                   chanVars, histVars, exitCode>>

\* line 569 with the test of line 533 in its place
HasRemainingAsThreshold(length) == length > insertBufferSize

\* line 569 with >= for >
HasRemainingOrEqual(length) == length >= prefixLength

\* line 569: insert remaining rows
HasRemaining(length) == length > prefixLength

\* the range over dataChan ends once the channel is closed (and empty: it
\* has no buffer); line 569 decides on the final flush, and a writeRows
\* without it returns to main, which blocks on <-quitChan (line 251)
LoopEnd ==
    /\ exitCode = Running
    /\ cpc = "recv"
    /\ dataClosed
    /\ cpc' = IF HasRemaining(Len(buf)) THEN "f_begin" ELSE "quit"
    /\ UNCHANGED <<inputVars, producerVars, colIdx, buf, appendSQL,
                   rowsWritten, targetVars, chanVars, histVars, exitCode>>

\* The statements of one flush; site is "t" for the threshold flush (lines
\* 534-557) and "f" for the final one (lines 570-593).

\* tx, err := dbi.db.Begin()
TxBegin(site) ==
    /\ exitCode = Running
    /\ cpc = site \o "_begin"
    /\ txOpen' = TRUE
    /\ tx' = <<>>
    /\ cpc' = site \o "_fk"
    /\ UNCHANGED <<inputVars, producerVars, consumerRest, committed,
                   chanVars, histVars, exitCode>>

\* tx.Exec("set foreign_key_checks=0")
TxForeignKeys(site) ==
    /\ exitCode = Running
    /\ cpc = site \o "_fk"
    /\ tx' = Append(tx, T_set_fk)
    /\ cpc' = site \o "_use"
    /\ UNCHANGED <<inputVars, producerVars, consumerRest, txOpen, committed,
                   chanVars, histVars, exitCode>>

\* a flush without the schema selection
TxUseMissing(site) ==
    /\ exitCode = Running
    /\ cpc = site \o "_use"
    /\ cpc' = site \o "_exec"
    /\ UNCHANGED <<inputVars, producerVars, consumerRest, targetVars,
                   chanVars, histVars, exitCode>>

\* tx.Exec("use " + addQuotes(dbi.schema))
TxUse(site) ==
    /\ exitCode = Running
    /\ cpc = site \o "_use"
    /\ tx' = Append(tx, T_use \o addQuotes(tgtSchema))
    /\ cpc' = site \o "_exec"
    /\ UNCHANGED <<inputVars, producerVars, consumerRest, txOpen, committed,
                   chanVars, histVars, exitCode>>

\* the source rows whose tuples the statement in buf holds
BatchRows ==
    {k \in 1..rowsWritten :
        \E from \in 1..k : buf = StatementOf(from, rowsWritten)}

\* The target rejects the statement in buf with a duplicate-key error: a
\* row of it has a unique key the table holds, and the statement is not an
\* insert ignore, which skips such rows.
Collides ==
    /\ dupRows # {}
    /\ ~StartsWith(buf, T_insert_ignore_into)
    /\ BatchRows \cap dupRows # {}

\* tx.Exec(buf.String())
TxExec(site) ==
    /\ exitCode = Running
    /\ cpc = site \o "_exec"
    /\ ~Collides
    /\ tx' = Append(tx, buf)
    /\ cpc' = site \o "_commit"
    /\ UNCHANGED <<inputVars, producerVars, consumerRest, txOpen, committed,
                   chanVars, histVars, exitCode>>

\* tx.Commit(); after the final flush writeRows returns to main
TxCommit(site) ==
    /\ exitCode = Running
    /\ cpc = site \o "_commit"
    /\ committed' = Append(committed, tx)
    /\ tx' = <<>>
    /\ txOpen' = FALSE
    /\ cpc' = IF site = "t" THEN "t_reset" ELSE "quit"
    /\ UNCHANGED <<inputVars, producerVars, consumerRest, chanVars, histVars,
                   exitCode>>

\* Begin, the two settings or Commit fail: checkErr panics
TxFail(site) ==
    /\ exitCode = Running
    /\ cpc \in {site \o "_begin", site \o "_fk", site \o "_use", site \o "_commit"}
    /\ Fail(cpc, ExitPanic)

\* the insert statement fails: the error is printed, os.Exit(11)
TxExecFail(site) ==
    /\ exitCode = Running
    /\ cpc = site \o "_exec"
    /\ Fail(cpc, ExitIO)

\* the insert statement fails on a duplicate key: the error is printed,
\* os.Exit(11) (lines 548-553, 584-589)
TxExecDuplicate(site) ==
    /\ exitCode = Running
    /\ cpc = site \o "_exec"
    /\ Collides
    /\ Fail(site \o "_duplicate", ExitIO)

ThresholdBegin == TxBegin("t")
ThresholdForeignKeys == TxForeignKeys("t")
ThresholdUse == TxUse("t")
ThresholdExec == TxExec("t")
ThresholdCommit == TxCommit("t")
ThresholdFail == TxFail("t")
ThresholdExecFail == TxExecFail("t")

FinalBegin == TxBegin("f")
FinalForeignKeys == TxForeignKeys("f")
FinalUse == TxUse("f")
FinalExec == TxExec("f")
FinalCommit == TxCommit("f")
FinalFail == TxFail("f")
FinalExecFail == TxExecFail("f")

\* writeRows leaving the loop body after a threshold flush without the
\* signal on goChan
AfterResetNoSignal == "recv"

\* where writeRows continues after the reset of the buffer: the signal on
\* goChan (line 565)
AfterReset == "ack"

\* the reset without buf.Reset(): the prefix is written after the batch
\* that was just executed
ThresholdResetKeepsBatch ==
    /\ exitCode = Running
    /\ cpc = "t_reset"
    /\ buf' = buf \o sqlPrefix(fTgtIgnore)
    /\ appendSQL' = FALSE
    /\ cpc' = AfterReset
    /\ UNCHANGED <<inputVars, producerVars, colIdx, rowsWritten, targetVars,
                   chanVars, histVars, exitCode>>

\* buf.Reset(); buf.WriteString(sqlPrefix); appendSQL = false (lines 559-561)
ThresholdReset ==
    /\ exitCode = Running
    /\ cpc = "t_reset"
    /\ buf' = sqlPrefix(fTgtIgnore)
    /\ appendSQL' = FALSE
    /\ cpc' = AfterReset
    /\ UNCHANGED <<inputVars, producerVars, colIdx, rowsWritten, targetVars,
                   chanVars, histVars, exitCode>>

----------------------------------------------------------------------------
(* The end of the run (lines 251-269, 456) *)

\* main without the receive of line 251: it goes on to close the channels
\* when writeRows has returned
QuitNotAwaited ==
    /\ exitCode = Running
    /\ cpc = "quit"
    /\ cpc' = "closequit"
    /\ UNCHANGED <<inputVars, producerVars, consumerRest, targetVars,
                   chanVars, histVars, exitCode>>

\* quitChan <- true meets main's <-quitChan; readRows returns
Quit ==
    /\ exitCode = Running
    /\ ppc = "quit"
    /\ cpc = "quit"
    /\ ~quitClosed
    /\ ppc' = "done"
    /\ cpc' = "closequit"
    /\ UNCHANGED <<inputVars, cursor, vals, consumerRest, targetVars,
                   chanVars, histVars, exitCode>>

\* close(quitChan)
CloseQuit ==
    /\ exitCode = Running
    /\ cpc = "closequit"
    /\ quitClosed' = TRUE
    /\ cpc' = "closego"
    /\ UNCHANGED <<inputVars, producerVars, consumerRest, targetVars,
                   dataClosed, goClosed, histVars, exitCode>>

\* close(goChan)
CloseGo ==
    /\ exitCode = Running
    /\ cpc = "closego"
    /\ goClosed' = TRUE
    /\ cpc' = "exit"
    /\ UNCHANGED <<inputVars, producerVars, consumerRest, targetVars,
                   dataClosed, quitClosed, histVars, exitCode>>

\* main returns: the process ends with code 0
MainReturn ==
    /\ exitCode = Running
    /\ cpc = "exit"
    /\ cpc' = "done"
    /\ exitCode' = Exited(ExitOK)
    /\ UNCHANGED <<inputVars, producerVars, consumerRest, targetVars,
                   chanVars, histVars>>

Next ==
    \/ Query \/ QueryFail \/ NextRow \/ NextFail \/ Scan \/ ScanFail
    \/ CloseData
    \/ Publish \/ Ack
    \/ RenderCol \/ EndRow \/ LoopEnd
    \/ ThresholdBegin \/ ThresholdForeignKeys \/ ThresholdUse
    \/ ThresholdExec \/ ThresholdCommit \/ ThresholdFail
    \/ ThresholdExecFail \/ ThresholdReset
    \/ FinalBegin \/ FinalForeignKeys \/ FinalUse \/ FinalExec
    \/ FinalCommit \/ FinalFail \/ FinalExecFail
    \/ Quit \/ CloseQuit \/ CloseGo \/ MainReturn

Spec == Init /\ [][Next]_vars

\* The runs without a database failure: every query, fetch and statement
\* succeeds.  The goroutines of readRows and main are scheduled fairly: a
\* step that stays possible is taken (the Go scheduler runs every
\* runnable goroutine, and a rendezvous both sides wait for happens).
NextCopy ==
    \/ Query \/ NextRow \/ Scan \/ CloseData
    \/ Publish \/ Ack
    \/ RenderCol \/ EndRow \/ LoopEnd
    \/ ThresholdBegin \/ ThresholdForeignKeys \/ ThresholdUse
    \/ ThresholdExec \/ ThresholdCommit \/ ThresholdReset
    \/ FinalBegin \/ FinalForeignKeys \/ FinalUse \/ FinalExec
    \/ FinalCommit
    \/ Quit \/ CloseQuit \/ CloseGo \/ MainReturn

\* a table of one varchar column, of up to MaxRows rows
InitCopy ==
    /\ RunInputs({<<"varchar">>}, PipelineValues, MaxRows)
    /\ SetupDone
    /\ NoSignal
    /\ PipelineStart

SpecCopy == InitCopy /\ [][NextCopy]_vars /\ WF_vars(NextCopy)

\* Most runs of the program against one target.
MaxRuns == 2

\* The same command line is run again after a successful run.  The flags
\* are those lines 161 and 169 have filled in, which the program treats
\* like the ones given.  The target keeps its transactions; its table then
\* holds the keys of the source rows too, if it has a unique key.
RunAgain ==
    /\ exitCode = Exited(ExitOK)
    /\ run < MaxRuns
    /\ run' = run + 1
    /\ dupRows' \in {dupRows, 1..Len(srcRows)}
    /\ source' = [schema |-> <<>>, table |-> <<>>, db |-> FALSE]
    /\ target' = [schema |-> <<>>, table |-> <<>>, db |-> FALSE]
    /\ createStmt' = <<>>
    /\ columns' = <<>>
    /\ ppc' = "idle"
    /\ cursor' = 0
    /\ vals' = <<>>
    /\ cpc' = "host"
    /\ colIdx' = 0
    /\ buf' = <<>>
    /\ appendSQL' = FALSE
    /\ rowsWritten' = 0
    /\ dataClosed' = FALSE
    /\ quitClosed' = FALSE
    /\ goClosed' = FALSE
    /\ exitCode' = Running
    /\ published' = 0
    /\ acked' = 0
    /\ failures' = <<>>
    /\ UNCHANGED <<flagVars, srcTypes, srcRows, tgtHasSchema, tgtBefore,
                   targetVars, signalVars>>

\* The runs from process start: the command line is checked, the servers
\* are connected and introspected, the target is provisioned unless
\* appending, and the pipeline copies the rows.
NextMain ==
    \/ CheckHost \/ CheckHostFail \/ CheckTable \/ CheckTableFail
    \/ SetAppend \/ Password \/ PasswordFail
    \/ SplitNames \/ SplitNamesFail
    \/ ConnectSource \/ ConnectTarget \/ ConnectFail
    \/ GetCreateTable \/ GetDataTypes \/ IntrospectFail
    \/ CopyMode
    \/ SchemaShow \/ SchemaCreate \/ SchemaCreateFail
    \/ TableBegin \/ TableForeignKeys \/ TableUse \/ TableDrop
    \/ TableCreate \/ TableCommit \/ TableFail
    \/ StartPipeline
    \/ RenderColFail
    \/ (\E site \in {"t", "f"} : TxExecDuplicate(site))
    \/ RunAgain
    \/ Next

SpecMain == InitMain /\ [][NextMain]_vars

----------------------------------------------------------------------------
(* catchNotifications (lines 279-318): the goroutine that handles SIGINT   *)

\* a second of wall clock passes
Tick ==
    /\ exitCode = Running
    /\ now < ProcessStart + MaxElapsed
    /\ now' = now + 1
    /\ UNCHANGED <<srcRows, columns, fTgtAppend, fTgtIgnore, setupVars,
                   timer, ignoreStdin, signals, warnings, producerVars,
                   consumerVars, targetVars, chanVars, exitCode, histVars>>

\* line 300 with the window open from the first interrupt on: the timer
\* is taken to start with the process
InWindowFromStart ==
    now - (IF timer = 0 THEN ProcessStart ELSE timer) < signalTimeout

\* line 300: time.Now().Sub(timer) < time.Second*signalTimeout
InWindow == now - timer < signalTimeout

\* An interrupt reaches the handler (lines 293-316).  With stdin
\* redirected it exits at once with code 0; otherwise it exits with code 0
\* if the last warning is less than signalTimeout seconds old, and warns
\* and sets the timer if not.
Interrupt ==
    /\ exitCode = Running
    /\ signals' = signals + 1
    /\ IF ignoreStdin \/ InWindow
       THEN /\ exitCode' = Exited(ExitOK)
            /\ UNCHANGED <<timer, warnings>>
       ELSE /\ timer' = now
            /\ warnings' = Append(warnings, now)
            /\ UNCHANGED exitCode
    /\ UNCHANGED <<srcRows, columns, fTgtAppend, fTgtIgnore, setupVars, now,
                   ignoreStdin, producerVars, consumerVars, targetVars,
                   chanVars, histVars>>

\* The runs with interrupts: a copy of two rows with -ignore, the first of
\* which is flushed at the threshold and the second at the end, stdin a
\* terminal or not.
InitSignal ==
    /\ fTgtIgnore = TRUE
    /\ fTgtAppend = TRUE
    /\ columns = <<"varchar">>
    /\ srcRows = << <<Col(<<"\\", "'">>)>>, <<Col(<<"a">>)>> >>
    /\ SetupDone
    /\ now = ProcessStart
    /\ timer = 0
    /\ ignoreStdin \in BOOLEAN
    /\ signals = 0
    /\ warnings = <<>>
    /\ PipelineStart

NextSignal == Tick \/ Interrupt \/ Next

SpecSignal == InitSignal /\ [][NextSignal]_vars

\* The literal-rendering runs: one row of one column, every value up to
\* MaxValLen bytes and every data type, through the same pipeline.
RenderValues == {NullCol} \cup {Col(t) : t \in TextsUpTo(MaxValLen)}
RenderProfiles == {<<t>> : t \in TextTypes \cup OtherTypes}

InitRender ==
    /\ RunInputs(RenderProfiles, RenderValues, 1)
    /\ SetupDone
    /\ NoSignal
    /\ PipelineStart

SpecRender == InitRender /\ [][Next]_vars

----------------------------------------------------------------------------
(* Definitions the properties are stated with *)

Succeeded == exitCode = Exited(ExitOK)

\* total encoded size of the source rows: the statement prefix plus all
\* tuples
TotalSize == Len(StatementOf(1, Len(srcRows)))

\* the first source row at which the batch of the rows from 1 on is larger
\* than insertBufferSize, when TotalSize is
FirstOver ==
    CHOOSE k \in 1..Len(srcRows) :
        /\ Len(StatementOf(1, k)) > insertBufferSize
        /\ \A j \in 1..(k - 1) : Len(StatementOf(1, j)) <= insertBufferSize

\* writeRows is in its final flush (lines 570-593)
InFinalFlush == cpc \in {"f_begin", "f_fk", "f_use", "f_exec", "f_commit"}

\* the consumer holds a published row it has not acknowledged yet
HoldsRow ==
    cpc \in {"col", "endrow", "t_begin", "t_fk", "t_use", "t_exec", "t_commit",
             "t_reset", "ack"}

EndsWith(text, suffix) ==
    /\ Len(suffix) <= Len(text)
    /\ SubSeq(text, Len(text) - Len(suffix) + 1, Len(text)) = suffix

\* What a SQL string literal denotes (MySQL, default sql_mode): inside the
\* quotes a backslash makes the next byte literal, two quotes are one
\* quote, and the first other quote ends the literal, which must be the end
\* of the text.  out is what has been decoded before position k.
RECURSIVE DecodeFrom(_, _, _)
DecodeFrom(lit, k, out) ==
    IF k > Len(lit) THEN [ok |-> FALSE, col |-> NullCol]
    ELSE IF lit[k] = "\\"
         THEN IF k + 1 > Len(lit) THEN [ok |-> FALSE, col |-> NullCol]
              ELSE DecodeFrom(lit, k + 2, Append(out, lit[k + 1]))
    ELSE IF lit[k] = "'"
         THEN IF k + 1 <= Len(lit) /\ lit[k + 1] = "'"
              THEN DecodeFrom(lit, k + 2, Append(out, "'"))
              ELSE [ok |-> k = Len(lit), col |-> Col(out)]
    ELSE DecodeFrom(lit, k + 1, Append(out, lit[k]))

SqlDecode(lit) ==
    IF lit = T_NULL THEN [ok |-> TRUE, col |-> NullCol]
    ELSE IF lit # <<>> /\ lit[1] = "'" THEN DecodeFrom(lit, 2, <<>>)
    ELSE [ok |-> FALSE, col |-> NullCol]

\* each backslash and each quote of a value preceded by one backslash
RECURSIVE EscapedOnce(_)
EscapedOnce(bytes) ==
    IF bytes = <<>> THEN <<>>
    ELSE (IF Head(bytes) \in {"\\", "'"} THEN <<"\\", Head(bytes)>>
          ELSE <<Head(bytes)>>) \o EscapedOnce(Tail(bytes))

\* In a literal-rendering run: the only column of the only row has been
\* rendered and the tuple is not closed yet; Rendered is its literal.
ColumnRendered == cpc = "endrow" /\ Len(srcRows) = 1 /\ Len(columns) = 1
Rendered == SubSeq(buf, prefixLength + 1, Len(buf))
Source == srcRows[1][1]

----------------------------------------------------------------------------
(* Properties *)

\* C1: while the consumer holds a published row (from its receive on
\* dataChan to its send on goChan), the producer is blocked on goChan, has
\* not called rows.Next or rows.Scan again, and the shared buffer holds
\* exactly that row; whenever the consumer is to read a column from the
\* buffer, the row in it is not acknowledged yet.
C1_BufferHeldUntilAck ==
    /\ HoldsRow =>
          /\ ppc = "wait"
          /\ cursor = published
          /\ published \in 1..Len(srcRows)
          /\ vals = srcRows[published]
    /\ cpc = "col" => (acked = published - 1 /\ colIdx \in 1..Len(vals))

\* C1 witness: the consumer is in the middle of the second row of a
\* two-column table whose rows differ, one column rendered, one to read.
C1_Witness ==
    /\ cpc = "col"
    /\ colIdx = 2
    /\ published = 2
    /\ srcRows[1] # srcRows[2]
    /\ vals = srcRows[2]

\* C2: publish and acknowledge alternate, starting with a publish: at most
\* one row is published and not acknowledged, and it is exactly while the
\* consumer holds a row; the consumer is ready to acknowledge only once the
\* row is counted, its tuple is in the batch or, when the row triggered a
\* threshold flush, in the insert statement of the last committed
\* transaction, with no transaction open; once the data channel is closed
\* every source row has been published and acknowledged.
C2_PublishAckAlternate ==
    /\ published = acked + (IF HoldsRow THEN 1 ELSE 0)
    /\ cpc = "ack" =>
          /\ rowsWritten = published
          /\ ~txOpen
          /\ ~OverThreshold(Len(buf))
          /\ IF Len(buf) > prefixLength
             THEN EndsWith(buf, RowTuple(srcRows[published]))
             ELSE /\ committed # <<>>
                  /\ EndsWith(InsertOf(committed[Len(committed)]),
                              RowTuple(srcRows[published]))
    /\ dataClosed => (published = Len(srcRows) /\ acked = published)

\* C2 witness: the consumer is about to acknowledge the second row, which
\* triggered a threshold flush that has committed.
C2_Witness ==
    /\ cpc = "ack"
    /\ published = 2
    /\ acked = 1
    /\ Len(buf) = prefixLength
    /\ Len(committed) = 1

\* C3: the insert statements of the committed transactions, in commit
\* order, hold the source rows in cursor order, each statement the rows
\* that follow those of the statement before it: together they hold a
\* prefix of the rows the source cursor returns, and all of them once the
\* run has ended successfully.
C3_CommitsInSourceOrder ==
    LET held == RowsCommitted(Len(committed))
    IN  /\ held \in 0..Len(srcRows)
        /\ held <= acked + 1
        /\ Succeeded => held = Len(srcRows)

\* C3 witness: two transactions are committed, the first holding the first
\* row and the second the row after it, and the rows differ.
C3_Witness ==
    /\ Len(committed) = 2
    /\ RowsCommitted(1) = 1
    /\ RowsCommitted(2) = 2
    /\ srcRows[1] # srcRows[2]

\* C4: a recreate-mode run that ends successfully has committed exactly the
\* rows the source query returned, each once, and rowsWritten, the count
\* writeRows returns, is their number.
C4_AllRowsCommittedOnce ==
    (Succeeded /\ ~fTgtAppend) =>
        /\ RowsCommitted(Len(committed)) = Len(srcRows)
        /\ rowsWritten = Len(srcRows)

\* C4 witness: a successful recreate-mode run of a single row.
C4_Witness ==
    /\ Succeeded
    /\ ~fTgtAppend
    /\ Len(srcRows) = 1
    /\ rowsWritten = 1
    /\ RowsCommitted(Len(committed)) = 1

\* C5: for every column value and every data type, text-like or not, the
\* literal writeRows renders decodes under the SQL string-literal rules to
\* the source column: NULL to NULL, bytes to the same bytes.
C5_LiteralDecodesToSource ==
    ColumnRendered => SqlDecode(Rendered) = [ok |-> TRUE, col |-> Source]

\* C6: a NULL column is rendered as the literal NULL, a present but empty
\* column as the empty string literal, and a non-empty column as a quoted
\* literal of at least three bytes, so that the three forms are disjoint,
\* whatever the data type.
C6_NullEmptyDistinct ==
    ColumnRendered =>
        /\ Source.isNull <=> Rendered = T_NULL
        /\ (~Source.isNull /\ Source.bytes = <<>>) <=> Rendered = <<"'", "'">>
        /\ (~Source.isNull /\ Source.bytes # <<>>) =>
              /\ Len(Rendered) >= 3
              /\ Rendered[1] = "'"
              /\ Rendered[Len(Rendered)] = "'"

\* C6 witness: a NULL column of a text type has been rendered as NULL.
C6_Witness ==
    /\ ColumnRendered
    /\ Source.isNull
    /\ IsTextType(columns[1])
    /\ Rendered = T_NULL

\* C7: for a non-empty value of a text-like column, the literal is the
\* value between quotes with each backslash and each quote preceded by
\* exactly one backslash, and un-escaping it gives back the value.
C7_TextEscapedOnce ==
    (ColumnRendered /\ IsTextType(columns[1]) /\ ~Source.isNull
        /\ Source.bytes # <<>>) =>
        /\ Rendered = <<"'">> \o EscapedOnce(Source.bytes) \o <<"'">>
        /\ SqlDecode(Rendered) = [ok |-> TRUE, col |-> Source]

\* C7 witness: a text value with a quote directly followed by a backslash
\* has been rendered.
C7_Witness ==
    /\ ColumnRendered
    /\ IsTextType(columns[1])
    /\ ~Source.isNull
    /\ \E k \in 1..(Len(Source.bytes) - 1) :
          Source.bytes[k] = "'" /\ Source.bytes[k + 1] = "\\"

\* C8 as claimed: a successful run over source rows whose total encoded
\* size exceeds insertBufferSize commits more than one insert transaction.
C8_Original ==
    (Succeeded /\ TotalSize > insertBufferSize) => Len(committed) > 1

\* C8 amended: such a run commits at least one insert transaction, and
\* more than one exactly when a source row follows the row at which the
\* batch first exceeds insertBufferSize.
C8_MoreThanOneUnlessLastRow ==
    (Succeeded /\ TotalSize > insertBufferSize) =>
        /\ Len(committed) >= 1
        /\ Len(committed) > 1 <=> FirstOver < Len(srcRows)

\* C8 witness: a successful run of two rows, the first of which alone
\* exceeds insertBufferSize, has committed two transactions.
C8_Witness ==
    /\ Succeeded
    /\ TotalSize > insertBufferSize
    /\ Len(srcRows) = 2
    /\ FirstOver = 1
    /\ Len(committed) = 2

\* C9 as claimed: a run over source rows whose total encoded size is below
\* insertBufferSize flushes nothing before the data channel is closed and,
\* when it succeeds, has performed exactly one flush.
C9_Original ==
    /\ ((txOpen \/ committed # <<>>) /\ TotalSize < insertBufferSize)
          => (dataClosed /\ ~HoldsRow)
    /\ (Succeeded /\ TotalSize < insertBufferSize) => Len(committed) = 1

\* C9 amended: the same for every non-empty source; a run over an empty
\* source performs no flush at all.
C9_OneFinalFlushIfNonEmpty ==
    /\ ((txOpen \/ committed # <<>>) /\ TotalSize < insertBufferSize)
          => (dataClosed /\ ~HoldsRow)
    /\ (Succeeded /\ TotalSize < insertBufferSize)
          => Len(committed) = (IF srcRows = <<>> THEN 0 ELSE 1)

\* C9 witness: a successful run of two rows below insertBufferSize has
\* committed one transaction, which holds both rows.
C9_Witness ==
    /\ Succeeded
    /\ TotalSize < insertBufferSize
    /\ Len(srcRows) = 2
    /\ Len(committed) = 1
    /\ RowsCommitted(1) = 2

\* C10: every insert statement executed on the target holds at least one
\* tuple: each committed one is longer than the statement prefix and holds
\* at least one source row beyond those of the statements before it, and
\* the one of an open transaction is longer than the statement prefix;
\* nothing is executed for an empty source, and the final flush runs only
\* with a batch longer than the prefix, so not after a threshold flush
\* triggered by the last row.
C10_FlushOnlyNonEmpty ==
    /\ \A k \in 1..Len(committed) :
          Len(InsertOf(committed[k])) > prefixLength
    /\ RowsCommitted(Len(committed)) # Mismatch
    /\ cpc \in {"t_commit", "f_commit"} => Len(InsertOf(tx)) > prefixLength
    /\ srcRows = <<>> => (committed = <<>> /\ tx = <<>> /\ ~txOpen)
    /\ InFinalFlush => Len(buf) > prefixLength

\* C10 witness: the only row triggered a threshold flush and the run has
\* ended successfully with that one transaction, without a final flush.
C10_Witness ==
    /\ Succeeded
    /\ Len(srcRows) = 1
    /\ Len(committed) = 1
    /\ Len(InsertOf(committed[1])) > insertBufferSize
    /\ buf = sqlPrefix(fTgtIgnore)

\* writeRows is in a threshold flush (lines 534-561)
InThresholdFlush ==
    cpc \in {"t_begin", "t_fk", "t_use", "t_exec", "t_commit", "t_reset"}

\* HeldUpTo(k)[j] is RowsCommitted(j), for j in 1..k
RECURSIVE HeldUpTo(_)
HeldUpTo(k) ==
    IF k = 0 THEN <<>>
    ELSE LET before == HeldUpTo(k - 1)
             last == IF k = 1 THEN 0 ELSE before[k - 1]
             stmt == InsertOf(committed[k])
             prefix == sqlPrefix(fTgtIgnore)
         IN  Append(before,
                    IF last = Mismatch \/ ~StartsWith(stmt, prefix)
                    THEN Mismatch
                    ELSE LastRowHeld(stmt, Len(prefix) + 1, last + 1))

\* the length of the k-th committed insert statement without its last
\* tuple and the separator before it; held is HeldUpTo(Len(committed))
LengthBeforeLastTuple(held, k) ==
    LET from == IF k = 1 THEN 1 ELSE held[k - 1] + 1
        to == held[k]
    IN  Len(InsertOf(committed[k])) - Len(RowTuple(srcRows[to]))
            - (IF to > from THEN 2 ELSE 0)

\* C11 as claimed: the length of every insert statement executed on the
\* target, committed or in the open transaction, is at most
\* insertBufferSize.
C11_Original ==
    /\ \A k \in 1..Len(committed) :
          Len(InsertOf(committed[k])) <= insertBufferSize
    /\ cpc \in {"t_commit", "f_commit"} => Len(InsertOf(tx)) <= insertBufferSize

\* C11 amended: an insert statement executed by the final flush is at most
\* insertBufferSize long; one executed by a threshold flush is longer than
\* insertBufferSize, and every executed statement without its last tuple is
\* at most insertBufferSize long: the bound is passed by at most one tuple
\* and its separator.
C11_WithinOneTuple ==
    /\ InFinalFlush => Len(buf) <= insertBufferSize
    /\ InThresholdFlush => Len(buf) > insertBufferSize
    /\ cpc \in {"t_commit", "f_commit"} => InsertOf(tx) = buf
    /\ LET held == HeldUpTo(Len(committed))
       IN  \A k \in 1..Len(committed) :
               /\ held[k] # Mismatch
               /\ LengthBeforeLastTuple(held, k) <= insertBufferSize

\* C11 witness: a committed insert statement of two rows is longer than
\* insertBufferSize, and was not before its second tuple.
C11_Witness ==
    /\ Len(committed) >= 1
    /\ RowsCommitted(1) = 2
    /\ Len(InsertOf(committed[1])) > insertBufferSize
    /\ LengthBeforeLastTuple(HeldUpTo(1), 1) <= insertBufferSize

\* main is in createSchema or createTable (lines 374-419)
InProvisioning ==
    cpc \in {"cs_show", "cs_create", "ct_begin", "ct_fk", "ct_use", "ct_drop",
             "ct_create", "ct_commit"}

\* a statement that drops a table, creates a table or creates a database
IsDDL(stmt) ==
    \/ StartsWith(stmt, T_drop_table)
    \/ StartsWith(stmt, T_show_create)
    \/ StartsWith(stmt, T_create_database)

\* a transaction in which the target table is dropped and, later, created
IsTableTx(t) ==
    \E i \in 1..Len(t) : \E j \in (i + 1)..Len(t) :
        /\ t[i] = T_drop_table \o addQuotes(tgtTable)
        /\ StartsWith(t[j], T_show_create \o addQuotes(tgtTable))

\* C12: once -append or -ignore is given, main never enters createSchema
\* or createTable and no drop table, create table or create database
\* statement is ever executed on the target; in recreate mode, when
\* readRows has started and as long as it has extracted no row, the last
\* transaction committed on the target is one that dropped the target
\* table and then created it, and drop and create statements occur in such
\* transactions only.
C12_ProvisioningByMode ==
    /\ (fTgtAppend \/ fTgtIgnore) =>
          /\ ~InProvisioning
          /\ \A k \in 1..Len(committed) : \A i \in 1..Len(committed[k]) :
                ~IsDDL(committed[k][i])
          /\ \A i \in 1..Len(tx) : ~IsDDL(tx[i])
    /\ (~fTgtAppend /\ ppc # "idle") =>
          /\ \A k \in 1..Len(committed) :
                (\E i \in 1..Len(committed[k]) :
                    \/ StartsWith(committed[k][i], T_drop_table)
                    \/ StartsWith(committed[k][i], T_show_create))
                => IsTableTx(committed[k])
          /\ cursor = 0 =>
                /\ committed # <<>>
                /\ IsTableTx(committed[Len(committed)])

\* C12 witness: a recreate-mode run with a renamed target table has
\* committed the drop and the create in one transaction, and readRows has
\* extracted its first row after it.
C12_Witness ==
    /\ ~fTgtAppend
    /\ source.table # target.table
    /\ cursor = 1
    /\ ppc = "scan"
    /\ Len(committed) = 1
    /\ IsTableTx(committed[1])

\* main has passed lines 168-170
FlagsSettled == cpc \notin {"host", "table", "ignore"}

DuplicateFailed ==
    \E i \in 1..Len(failures) : failures[i] \in {"t_duplicate", "f_duplicate"}

\* C13: with -ignore, append mode is on once the flags are settled, main
\* never enters createSchema or createTable, every insert statement built
\* or committed starts with "insert ignore into", and no statement fails
\* on a duplicate key, so that the run can end with exit code 0 although
\* source rows collide with keys of the target (the witness); without
\* -ignore the statements start with "insert into", a batch holding a
\* colliding row is never executed in a transaction, and the duplicate-key
\* error ends the process with code 11 with that batch in no transaction.
C13_IgnoreSkipsDuplicates ==
    /\ fTgtIgnore =>
          /\ FlagsSettled => fTgtAppend
          /\ ~InProvisioning
          /\ buf # <<>> => StartsWith(buf, T_insert_ignore_into)
          /\ \A k \in 1..Len(committed) :
                StartsWith(InsertOf(committed[k]), T_insert_ignore_into)
          /\ ~DuplicateFailed
    /\ ~fTgtIgnore =>
          /\ buf # <<>> => StartsWith(buf, T_insert_into)
          /\ cpc \in {"t_commit", "f_commit"} => BatchRows \cap dupRows = {}
          /\ Succeeded => dupRows = {}
          /\ DuplicateFailed =>
                /\ exitCode = Exited(ExitIO)
                /\ BatchRows \cap dupRows # {}
                /\ \A i \in 1..Len(tx) : tx[i] # buf
                /\ cpc \in {"t_exec", "f_exec"}

\* C13 witness: a run with -ignore has ended with exit code 0 and one
\* committed insert ignore statement, and its only source row collides
\* with a key of the target.
C13_Witness ==
    /\ Succeeded
    /\ fTgtIgnore
    /\ dupRows = {1}
    /\ Len(committed) = 1
    /\ StartsWith(InsertOf(committed[1]), T_insert_ignore_into)

\* the captured create statement with the table identifier, and nothing
\* else, replaced by the target table
CreateRenamed ==
    T_show_create \o addQuotes(target.table)
        \o SubSeq(createStmt,
                  Len(T_show_create) + Len(source.table) + 3,
                  Len(createStmt))

\* C14: whenever createTable is to execute the create statement, its text
\* is the captured statement with only the table identifier replaced by
\* the target table name when the names differ, and the captured statement
\* itself when they are equal, for every source table name.
C14_CreateRenamedOnly ==
    cpc = "ct_create" =>
        tableCreate = (IF source.table # target.table THEN CreateRenamed
                       ELSE createStmt)

\* the tuples of an insert statement: its text after "values ("
TuplesOf(stmt) ==
    LET prefix == IF StartsWith(stmt, T_insert_ignore_into)
                  THEN sqlPrefix(TRUE) ELSE sqlPrefix(FALSE)
    IN  SubSeq(stmt, Len(prefix) + 1, Len(stmt))

\* What the target table holds after the statements i.. of a transaction,
\* holding content before them: the tuples inserted since it was last
\* dropped or created, separated as in a statement.  (Rows an insert
\* ignore skips are not told apart: used for plain inserts only.)
RECURSIVE ApplyFrom(_, _, _)
ApplyFrom(content, t, i) ==
    IF i > Len(t) THEN content
    ELSE LET stmt == t[i]
             after ==
                 IF StartsWith(stmt, T_drop_table) \/ StartsWith(stmt, T_show_create)
                 THEN <<>>
                 ELSE IF StartsWith(stmt, T_insert_into)
                         \/ StartsWith(stmt, T_insert_ignore_into)
                 THEN (IF content = <<>> THEN <<>> ELSE content \o <<",", "(">>)
                          \o TuplesOf(stmt)
                 ELSE content
         IN  ApplyFrom(after, t, i + 1)

\* the target table after the first k committed transactions
RECURSIVE ContentAfter(_)
ContentAfter(k) ==
    IF k = 0 THEN tgtBefore
    ELSE ApplyFrom(ContentAfter(k - 1), committed[k], 1)

\* the tuples of all source rows, in cursor order
SourceTuples ==
    LET all == StatementOf(1, Len(srcRows))
    IN  SubSeq(all, Len(sqlPrefix(fTgtIgnore)) + 1, Len(all))

\* C15: whenever a recreate-mode run has ended successfully, the first or
\* a later one against the same target, the target table holds exactly the
\* tuples of the source rows, each once, and the run has counted that many
\* rows, whatever the table held before the first run: a second run leaves
\* what the first one left.
C15_RecreateIdempotent ==
    (Succeeded /\ ~fTgtAppend) =>
        /\ ContentAfter(Len(committed)) = SourceTuples
        /\ rowsWritten = Len(srcRows)

\* C15 witness: the second recreate-mode run against a target that held
\* another row before the first run has ended successfully, with one
\* source row.
C15_Witness ==
    /\ Succeeded
    /\ ~fTgtAppend
    /\ run = 2
    /\ tgtBefore # <<>>
    /\ Len(srcRows) = 1
    /\ ContentAfter(Len(committed)) = SourceTuples

\* the positions of the statements of a flush
FlushPositions ==
    {"t_begin", "t_fk", "t_use", "t_exec", "t_commit",
     "f_begin", "f_fk", "f_use", "f_exec", "f_commit"}

\* C16: a failure of a statement of a flush ends the process at once with
\* a non-zero code: main is still at the failing statement, nothing has
\* failed or been executed after it, the insert statement of the failing
\* batch is in no transaction when it is the one that failed and its
\* transaction is never committed, so that the rows of the batch are not
\* committed, and the transactions committed before still hold the source
\* rows before the batch, in order.
C16_BatchFailureFatal ==
    /\ Len(failures) <= 1
    /\ failures # <<>> => exitCode \notin {Running, Exited(ExitOK)}
    /\ (failures # <<>> /\ failures[1] \in FlushPositions) =>
          /\ cpc = failures[1]
          /\ failures[1] \in {"t_exec", "f_exec"} =>
                /\ exitCode = Exited(ExitIO)
                /\ \A i \in 1..Len(tx) : tx[i] # buf
          /\ RowsCommitted(Len(committed)) + Cardinality(BatchRows)
                = rowsWritten

\* C16 witness: the insert statement of the second batch has failed after
\* the first batch, of one row, was committed.
C16_Witness ==
    /\ failures = <<"f_exec">>
    /\ exitCode = Exited(ExitIO)
    /\ Len(committed) = 1
    /\ RowsCommitted(1) = 1
    /\ rowsWritten = 2

\* where a configuration error shows: no target host, no source table, a
\* table name that is not fully qualified
ConfigPositions == {"host", "table", "split"}

\* where a DDL failure or an I/O failure of the copy shows: createSchema,
\* createTable, the source query and its rows, the statements of a flush
CopyPositions ==
    {"cs_create", "ct_begin", "ct_fk", "ct_drop", "ct_create", "ct_commit",
     "query", "next", "scan", "t_duplicate", "f_duplicate"}
        \cup FlushPositions

\* C17: a process that ends without a failure ends with code 0, and only
\* such a process; every configuration error ends it with the one code of
\* the usage errors; every DDL or I/O failure of the copy ends it with one
\* other non-zero code, the one of os.Exit(11).
C17_ExitCodeByClass ==
    /\ exitCode = Exited(ExitOK) <=> (exitCode # Running /\ failures = <<>>)
    /\ (failures # <<>> /\ failures[1] \in ConfigPositions)
          => exitCode = Exited(ExitUsage)
    /\ (failures # <<>> /\ failures[1] \in CopyPositions)
          => exitCode = Exited(ExitIO)

\* the command line has a configuration error: no target host, no source
\* table, or a source or target table that is not fully qualified
ConfigError ==
    \/ fTgtHost = <<>>
    \/ fSrcTable = <<>>
    \/ ~ContainsDot(fSrcTable)
    \/ (fTgtTable # <<>> /\ ~ContainsDot(fTgtTable))

C19_UnqualifiedRejected ==
    /\ (fSrcTable = <<>> \/ ~ContainsDot(fSrcTable)) =>
          /\ cpc \in {"host", "table"}
          /\ exitCode # Running =>
                /\ failures \in {<<"host">>, <<"table">>}
                /\ exitCode = Exited(ExitUsage)
    /\ cpc = "split" => (ContainsDot(fSrcTable) /\ ContainsDot(fTgtTable))

\* what the claimed grace period makes of an interrupt received at time
\* now: the first one warns, one less than signalTimeout seconds after the
\* last warning ends the process, a later one warns again
GraceStep ==
    IF warnings = <<>>
    THEN exitCode' = Running /\ warnings' = <<now>>
    ELSE IF now - warnings[Len(warnings)] < signalTimeout
    THEN exitCode' = Exited(ExitOK) /\ warnings' = warnings
    ELSE exitCode' = Running /\ warnings' = Append(warnings, now)

\* C20 as claimed: in every run, whether or not stdin is a terminal, each
\* interrupt is handled with the grace period.
C20_Original == [][signals' = signals + 1 => GraceStep]_vars

\* C20 amended: when stdin is a terminal each interrupt is handled with
\* the grace period; when it is not (terminal.GetState fails), every
\* interrupt, the first one too, ends the process with code 0 without a
\* warning.
C20_GraceOnTerminalOnly ==
    [][signals' = signals + 1 =>
          IF ignoreStdin
          THEN exitCode' = Exited(ExitOK) /\ warnings' = warnings
          ELSE GraceStep]_vars

\* C20 witness: with stdin a terminal the handler has warned twice, the
\* second time after the window of the first had elapsed, and a third
\* interrupt within the second window has ended the process.
C20_Witness ==
    /\ ~ignoreStdin
    /\ signals = 3
    /\ Len(warnings) = 2
    /\ warnings[2] - warnings[1] >= signalTimeout
    /\ exitCode = Exited(ExitOK)
    /\ cpc # "done"

\* the identifier that follows the keyword in a statement is between
\* backticks
QuotedAfter(stmt, keyword) ==
    StartsWith(stmt, keyword) =>
        /\ Len(stmt) >= Len(keyword) + 2
        /\ stmt[Len(keyword) + 1] = Backtick
        /\ \E k \in (Len(keyword) + 2)..Len(stmt) : stmt[k] = Backtick

\* schema and table of a statement that names both, joined by ".", are
\* each between backticks
QuotedPair(stmt, keyword) ==
    StartsWith(stmt, keyword) =>
        \E k \in (Len(keyword) + 3)..(Len(stmt) - 3) :
            /\ stmt[Len(keyword) + 1] = Backtick
            /\ SubSeq(stmt, k, k + 2) = <<Backtick, ".", Backtick>>
            /\ \E j \in (k + 3)..Len(stmt) : stmt[j] = Backtick

\* the statements of the program that name a schema or a table as an
\* identifier do so in the quoted form
IdentifiersQuoted(stmt) ==
    /\ QuotedAfter(stmt, T_use)
    /\ QuotedAfter(stmt, T_drop_table)
    /\ QuotedAfter(stmt, T_create_database)
    /\ QuotedPair(stmt, T_show_create_table)
    /\ QuotedPair(stmt, T_select_from)
    /\ QuotedPair(stmt, T_insert_into)
    /\ QuotedPair(stmt, T_insert_ignore_into)

\* C21: every statement the program issues that names a schema or a table
\* as an identifier (show create table and select on the source; use, drop
\* table, create database and insert on the target, in an open or a
\* committed transaction) has the identifier between backticks.
C21_IdentifiersQuoted ==
    /\ cpc = "get_create" => IdentifiersQuoted(showCreateQuery)
    /\ ppc = "query" => IdentifiersQuoted(selectQuery)
    /\ \A i \in 1..Len(tx) : IdentifiersQuoted(tx[i])
    /\ \A k \in 1..Len(committed) : \A i \in 1..Len(committed[k]) :
          IdentifiersQuoted(committed[k][i])

\* the positions of the statements of createSchema and createTable
ProvisioningPositions ==
    {"cs_show", "cs_create", "ct_begin", "ct_fk", "ct_use", "ct_drop",
     "ct_create", "ct_commit"}

\* C22: a failure of a statement of createSchema or createTable ends the
\* process with a non-zero code at that statement: main is still there, it
\* is the last failure, and readRows has not been started.
C22_ProvisioningFailureFatal ==
    \A i \in 1..Len(failures) :
        failures[i] \in ProvisioningPositions =>
            /\ exitCode \notin {Running, Exited(ExitOK)}
            /\ cpc = failures[i]
            /\ i = Len(failures)
            /\ ppc = "idle"
            /\ cursor = 0

\* C23: every row the consumer receives has the length of the column type
\* profile, in recreate and in append mode: the row buffer has that length
\* from the first fetch on, each column is rendered with an index inside
\* the profile, and the tuple written for a row is its literals with one
\* comma between two of them and none after the last.
C23_ProfileMatchesRows ==
    /\ ppc \notin {"idle", "query"} => Len(vals) = Len(columns)
    /\ cpc = "col" => colIdx \in 1..Len(columns)
    /\ cpc = "ack" /\ Len(buf) > prefixLength =>
          EndsWith(buf, <<"(">> \o RowTuple(srcRows[published]))

\* main has received from quitChan (line 251)
QuitReceived == cpc \in {"closequit", "closego", "exit", "done"}

\* C24: in a run without a database failure, under fair scheduling, the
\* process always ends with code 0, readRows and main both at their end;
\* readRows sends on quitChan only with dataChan closed, and main has
\* received from quitChan only when readRows has returned and writeRows
\* has returned after its last commit: no transaction is open and the
\* committed statements hold every source row.
C24_PipelineTerminates ==
    /\ <>(Succeeded /\ ppc = "done" /\ cpc = "done")
    /\ [](ppc \in {"quit", "done"} => dataClosed)
    /\ [](QuitReceived =>
            /\ ppc = "done"
            /\ ~txOpen
            /\ rowsWritten = Len(srcRows)
            /\ RowsCommitted(Len(committed)) = Len(srcRows))

\* C24 witness: a run of two rows has ended after a threshold flush and a
\* final flush, with both channels of main closed.
C24_Witness ==
    /\ Succeeded
    /\ ppc = "done"
    /\ Len(srcRows) = 2
    /\ Len(committed) = 2
    /\ quitClosed /\ goClosed

\* the statements of the transaction of a flush that executes stmt
FlushStatements(stmt) == <<T_set_fk, T_use \o addQuotes(tgtSchema), stmt>>

\* C25: writeRows is in a threshold flush exactly with a buffer longer
\* than insertBufferSize that ends with the tuple of the row just counted,
\* and is ready to acknowledge only with a buffer within the size; the
\* transaction of a flush, threshold or final, is begun, then holds the
\* foreign-key-check suspension, then the schema selection, then the whole
\* buffer as its one insert statement, and is committed as these three
\* statements; a buffer of prefix length after a threshold flush is the
\* bare statement prefix with appendSQL off, and what follows the prefix
\* in the buffer starts with a literal, never with a comma.
C25_FlushSequence ==
    /\ InThresholdFlush =>
          /\ Len(buf) > insertBufferSize
          /\ rowsWritten = published
          /\ EndsWith(buf, RowTuple(srcRows[published]))
    /\ cpc = "ack" => Len(buf) <= insertBufferSize
    /\ cpc \in {"t_begin", "f_begin"} => (~txOpen /\ tx = <<>>)
    /\ cpc \in {"t_fk", "f_fk"} => (txOpen /\ tx = <<>>)
    /\ cpc \in {"t_use", "f_use"} => (txOpen /\ tx = <<T_set_fk>>)
    /\ cpc \in {"t_exec", "f_exec"} =>
          (txOpen /\ tx = <<T_set_fk, T_use \o addQuotes(tgtSchema)>>)
    /\ cpc \in {"t_commit", "f_commit"} =>
          (txOpen /\ tx = FlushStatements(buf))
    /\ \A k \in 1..Len(committed) :
          /\ committed[k] = FlushStatements(InsertOf(committed[k]))
          /\ StartsWith(InsertOf(committed[k]), sqlPrefix(fTgtIgnore))
    /\ cpc \in {"t_reset", "ack", "recv"} => ~txOpen
    /\ (cpc = "ack" /\ Len(buf) = prefixLength) =>
          /\ buf = sqlPrefix(fTgtIgnore)
          /\ ~appendSQL
          /\ committed # <<>>
          /\ Len(InsertOf(committed[Len(committed)])) > insertBufferSize
    /\ cpc = "recv" => (appendSQL <=> Len(buf) > prefixLength)
    /\ StartsWith(buf, sqlPrefix(fTgtIgnore))
    /\ Len(buf) > prefixLength => buf[prefixLength + 1] \in {"'", "N"}

\* C25 witness: the first row was executed by a threshold flush, and the
\* tuple of the second row follows the bare statement prefix in the
\* buffer.
C25_Witness ==
    /\ cpc = "ack"
    /\ published = 2
    /\ Len(committed) = 1
    /\ committed[1] = FlushStatements(StatementOf(1, 1))
    /\ buf = StatementOf(2, 2)

\* main is before the mode test of line 233
BeforeProvisioning ==
    cpc \in {"host", "table", "ignore", "password", "split", "connect_src",
             "connect_tgt", "get_create", "get_types", "mode"}

\* drop table or create database
IsDestructive(stmt) ==
    StartsWith(stmt, T_drop_table) \/ StartsWith(stmt, T_create_database)

\* setup has succeeded on the source: both connections are open, the
\* create statement and the column types of the source table have been
\* read to their end, without an error
SourceSetupSucceeded ==
    /\ source.db
    /\ target.db
    /\ createStmt = ShowCreateTable(source.table)
    /\ columns = srcTypes
    /\ \A i \in 1..Len(failures) :
          failures[i] \notin {"connect_src", "connect_tgt", "get_create",
                              "get_types"}

\* C26: main is in createSchema or createTable, and a drop table or create
\* database statement is in the open transaction, only when setup has
\* succeeded on the source; up to the mode test nothing is executed on the
\* target, so that a run that ends on a failed connection or a missing
\* source table leaves the target as it was (in a first run: without any
\* committed transaction).
C26_DestructiveAfterSetup ==
    /\ InProvisioning => SourceSetupSucceeded
    /\ (\E i \in 1..Len(tx) : IsDestructive(tx[i])) => SourceSetupSucceeded
    /\ BeforeProvisioning =>
          /\ ~txOpen
          /\ tx = <<>>
          /\ run = 1 => committed = <<>>

\* C27: once the pipeline has started, a process that has ended with code
\* 0, by the return of main or by the interrupt handler, has committed
\* every row the source query returns, and no transaction is left open.
C27_SuccessMeansComplete ==
    (ppc # "idle" /\ Succeeded) =>
        /\ RowsCommitted(Len(committed)) = Len(srcRows)
        /\ ~txOpen

\* C28: a goroutine that is to send on a channel, or to close it, finds
\* it open: readRows at its send on dataChan, at close(dataChan) and at
\* its send on quitChan, writeRows at its send on goChan, main at
\* close(quitChan) and close(goChan).  dataChan is closed only when
\* readRows has sent its last row; quitChan and goChan are closed only
\* when readRows has returned from its send on quitChan and every row has
\* been acknowledged on goChan, quitChan first.
C28_ChannelOpsLegal ==
    /\ ppc \in {"send", "close"} => ~dataClosed
    /\ ppc = "quit" => ~quitClosed
    /\ cpc = "ack" => ~goClosed
    /\ cpc = "closequit" => ~quitClosed
    /\ cpc = "closego" => ~goClosed
    /\ dataClosed =>
          /\ ppc \in {"quit", "done"}
          /\ published = Len(srcRows)
    /\ quitClosed =>
          /\ ppc = "done"
          /\ cpc \in {"closego", "exit", "done"}
          /\ acked = Len(srcRows)
    /\ goClosed => (quitClosed /\ cpc \in {"exit", "done"})

\* C28 witness: main has closed quitChan and is to close goChan, after two
\* rows were sent and acknowledged and dataChan was closed.
C28_Witness ==
    /\ cpc = "closego"
    /\ quitClosed /\ dataClosed /\ ~goClosed
    /\ published = 2
    /\ acked = 2

\* In a threshold flush: the length of the tuple of the row just counted,
\* the last of the batch, with the separator written before it
LastTupleLength ==
    LET tuple == RowTuple(srcRows[published])
    IN  Len(tuple) + (IF Len(buf) > prefixLength + Len(tuple) THEN 2 ELSE 0)

\* C29 as claimed: the statement prefix is shorter than insertBufferSize;
\* while writeRows waits for the next row the buffer is at most
\* insertBufferSize long; the buffer of a threshold flush is longer than
\* insertBufferSize by less than its last tuple and separator, and without
\* them it is at most insertBufferSize long.
C29_Original ==
    /\ prefixLength < insertBufferSize
    /\ cpc = "recv" => Len(buf) <= insertBufferSize
    /\ InThresholdFlush =>
          /\ Len(buf) > insertBufferSize
          /\ Len(buf) - insertBufferSize < LastTupleLength
          /\ Len(buf) - LastTupleLength <= insertBufferSize

\* C29 amended: the same with the excess bounded by the length of the
\* last tuple and separator inclusively: a buffer of exactly
\* insertBufferSize bytes is not flushed, and the next tuple then exceeds
\* the size by its whole length.
C29_BoundedWhileWaiting ==
    /\ prefixLength < insertBufferSize
    /\ cpc = "recv" => Len(buf) <= insertBufferSize
    /\ InThresholdFlush =>
          /\ Len(buf) > insertBufferSize
          /\ Len(buf) - insertBufferSize <= LastTupleLength
          /\ Len(buf) - LastTupleLength <= insertBufferSize
          /\ EndsWith(buf, RowTuple(srcRows[published]))

\* C29 witness: a threshold flush of two rows whose buffer was exactly
\* insertBufferSize bytes long with the first.
C29_Witness ==
    /\ InThresholdFlush
    /\ published = 2
    /\ buf = StatementOf(1, 2)
    /\ Len(StatementOf(1, 1)) = insertBufferSize

====
